---- MODULE Spec2Model ----
(***************************************************************************)
(* TokenExplorer: the completion endpoint (server/routes.ts), the request  *)
(* forwarder and the probability normalizer (getCompletionWithProbabilities*)
(* in shared/schema.ts), as a state machine of one request.                *)
(*                                                                         *)
(* JavaScript objects are records; an optional property that is absent,    *)
(* undefined or null is a field that is not in the record's DOMAIN.        *)
(* Real numbers of the request (temperature, maxTokens) are fixed-point    *)
(* integers in tenths.  A log-probability l is an integer in units of      *)
(* ln 2, a probability p is an integer in units of 1/Scale.                *)
(***************************************************************************)
EXTENDS Integers, Sequences, FiniteSets, TLC

VARIABLES
    pc,             \* position of the POST /api/openai handler
    body,           \* req.body
    envKey,         \* process.env.OPENAI_API_KEY ("" when unset)
    upstreamCalls,  \* calls issued to openai.chat.completions.create
    upstream,       \* what the upstream call settled with
    thrown,         \* the error getCompletionWithProbabilities threw, if any
    responses,      \* HTTP responses sent for the request
    handlers,       \* the POST /api/openai handlers of concurrent requests
    calls,          \* the upstream calls of concurrent requests, with their outcomes
    envPasskey,     \* process.env.EXPLORER_PASSKEY ("" when unset)
    verifications,  \* requests to POST /api/verify-passkey, with their answers
    localStorage,   \* window.localStorage of the browser: key -> string
    isAuthenticated, \* Home: useState(false)
    passkey,        \* Home: the text of the passkey field
    loggedOut,      \* the user has logged out and submitted no passkey since
    apiKey,         \* Home: the stored value of useLocalStorage("openai_api_key")
    showApiKeyModal, \* Home: useState(false)
    modalApiKey,    \* ApiKeyModal: the text of its field
    prompt,         \* Home: the prompt text
    sent,           \* requests the page has sent to the application's server
    homeResponse,   \* Home: useState<CompletionResponse | null>(null) (<<>> is null)
    cleared,        \* the user has cleared the response and submitted nothing since
    tokenCount,     \* InputPanel: useState<number>(0)
    panelResponse,  \* ResultsPanel: the response prop (<<>> is null)
    selectedTokenIndex, \* ResultsPanel: useState(null)
    currentTokenIndex \* ResultsPanel with token navigation: useState(0)

\* the state of the completion endpoint and of its upstream
endpointVars == <<pc, body, envKey, upstreamCalls, upstream, thrown, responses>>
\* the completion endpoint under concurrent requests
concurrentVars == <<handlers, calls>>
\* the passkey endpoint and the passkey-gated page
loginVars == <<envPasskey, verifications, isAuthenticated, passkey, loggedOut>>
\* the page that takes the prompt, sends it and holds the response
credentialVars ==
    <<apiKey, showApiKeyModal, modalApiKey, prompt, sent, homeResponse, cleared, tokenCount>>
\* the results panels
panelVars == <<panelResponse, selectedTokenIndex, currentTokenIndex>>
\* everything that lives in the browser
clientVars == <<loginVars, localStorage, credentialVars, panelVars>>

vars == <<endpointVars, concurrentVars, clientVars>>

----------------------------------------------------------------------------
(* Bounds of the model *)

\* longest upstream logprobs.content list
MaxContent == 2
\* most (token, logprob) pairs in one upstream response: the chosen tokens of
\* its logprobs.content entries and the elements of their top_logprobs
MaxPairs == 4
\* binary digits of a probability: Scale = 2^ScaleBits stands for 1.0
ScaleBits == 4

Has(r, f) == f \in DOMAIN r

RECURSIVE Pow2(_)
Pow2(n) == IF n = 0 THEN 1 ELSE 2 * Pow2(n - 1)

Scale == Pow2(ScaleBits)

----------------------------------------------------------------------------
(* Math.exp on the fixed-point lattice: exp(l * ln 2) = 2^l, rounded down  *)
(* to a multiple of 1/Scale; a very negative l underflows to 0, as         *)
(* Math.exp(-9999) does.                                                   *)

RECURSIVE Exp(_)
Exp(l) == IF l >= 0 THEN Scale * Pow2(l) ELSE Exp(l + 1) \div 2

----------------------------------------------------------------------------
(* The upstream's per-token log-probability data *)

\* token texts: the same word in another letter case and with a leading blank
Tokens == {"Tea", "tea", " Tea"}
\* log-probabilities in units of ln 2; exp of the last one underflows to 0
LogProbs == {-1, -6}

\* one element of top_logprobs
TopLogprob == [token : Tokens, logprob : LogProbs]

\* the chosen token and log-probability of one entry
Chosen == [token : Tokens, logprob : LogProbs]

\* the sizes of the top_logprobs lists of n entries, Absent for an entry
\* without the property, of at most budget elements in all
Absent == -1

RECURSIVE SumSizes(_)
SumSizes(sizes) ==
    IF sizes = <<>> THEN 0
    ELSE SumSizes(SubSeq(sizes, 1, Len(sizes) - 1))
         + (IF sizes[Len(sizes)] = Absent THEN 0 ELSE sizes[Len(sizes)])

Shapes(n, budget) == {sizes \in [1..n -> Absent..budget] : SumSizes(sizes) <= budget}

\* the content list of the entries chosen[i], the i-th of which takes the
\* next sizes[i] elements of pool as its top_logprobs
ContentOf(chosen, sizes, pool) ==
    [i \in 1..Len(chosen) |->
        IF sizes[i] = Absent
        THEN chosen[i]
        ELSE [token        |-> chosen[i].token,
              logprob      |-> chosen[i].logprob,
              top_logprobs |-> SubSeq(pool, SumSizes(SubSeq(sizes, 1, i - 1)) + 1,
                                      SumSizes(SubSeq(sizes, 1, i)))]]

\* the content lists of at most maxLen entries and at most budget pairs in all
Contents(maxLen, budget) ==
    UNION { UNION { { ContentOf(chosen, sizes, pool) :
                          chosen \in [1..n -> Chosen],
                          pool \in [1..SumSizes(sizes) -> TopLogprob] } :
                    sizes \in Shapes(n, budget - n) } :
            n \in 0..maxLen }

----------------------------------------------------------------------------
(* The probability normalizer: shared/schema.ts, lines 105-133 *)

\* a filter that keeps every element
FilterAlternativesKeepAll(top, mainToken) == top

\* the token text without its leading blank and in one letter case
Folded(token) == IF token \in {"tea", " Tea"} THEN "Tea" ELSE token

\* a filter that compares the token texts trimmed and case-folded
FilterAlternativesFolded(top, mainToken) ==
    SelectSeq(top, LAMBDA lp : Folded(lp.token) # Folded(mainToken))

\* .filter(lp => lp.token !== mainToken)
FilterAlternatives(top, mainToken) ==
    SelectSeq(top, LAMBDA lp : lp.token # mainToken)

\* a map that copies the log-probability without exponentiating it
MapAlternativesRaw(top) ==
    [i \in 1..Len(top) |-> [token |-> top[i].token, probability |-> top[i].logprob]]

\* .map(lp => ({token: lp.token, probability: Math.exp(lp.logprob)}))
MapAlternatives(top) ==
    [i \in 1..Len(top) |-> [token |-> top[i].token, probability |-> Exp(top[i].logprob)]]

\* the comparator of an ascending sort
CompareAscending(a, b) == a.probability - b.probability

\* the comparator (a, b) => b.probability - a.probability
CompareAlternatives(a, b) == b.probability - a.probability

\* Array.prototype.sort is stable: x goes behind every element that the
\* comparator does not order after it
RECURSIVE InsertSorted(_, _)
InsertSorted(s, x) ==
    IF s = <<>> THEN <<x>>
    ELSE IF CompareAlternatives(s[Len(s)], x) <= 0 THEN Append(s, x)
    ELSE Append(InsertSorted(SubSeq(s, 1, Len(s) - 1), x), s[Len(s)])

RECURSIVE SortAlternatives(_)
SortAlternatives(s) ==
    IF s = <<>> THEN <<>>
    ELSE InsertSorted(SortAlternatives(SubSeq(s, 1, Len(s) - 1)), s[Len(s)])

\* the body of the forEach callback: the records one entry pushes
NormalizeEntry(tokenLogprob) ==
    IF Has(tokenLogprob, "top_logprobs")
    THEN << [token        |-> tokenLogprob.token,
             probability  |-> Exp(tokenLogprob.logprob),
             alternatives |-> SortAlternatives(MapAlternatives(
                                  FilterAlternatives(tokenLogprob.top_logprobs,
                                                     tokenLogprob.token)))] >>
    ELSE <<>>

\* a loop that puts each record in front of the earlier ones
RECURSIVE NormalizeContentUnshift(_)
NormalizeContentUnshift(contentLogprobs) ==
    IF contentLogprobs = <<>> THEN <<>>
    ELSE NormalizeEntry(contentLogprobs[Len(contentLogprobs)])
         \o NormalizeContentUnshift(SubSeq(contentLogprobs, 1, Len(contentLogprobs) - 1))

\* contentLogprobs.forEach(...), pushing onto tokenProbabilities
RECURSIVE NormalizeContent(_)
NormalizeContent(contentLogprobs) ==
    IF contentLogprobs = <<>> THEN <<>>
    ELSE NormalizeContent(SubSeq(contentLogprobs, 1, Len(contentLogprobs) - 1))
         \o NormalizeEntry(contentLogprobs[Len(contentLogprobs)])

\* the guard of line 108 and the loop it protects
TokenProbabilitiesOf(choice) ==
    IF Has(choice, "logprobs") /\ Has(choice.logprobs, "content")
    THEN NormalizeContent(choice.logprobs.content)
    ELSE <<>>

----------------------------------------------------------------------------
(* The request: shared/schema.ts, openaiRequestSchema (lines 37-43) *)

\* fixed-point resolution of the request's real numbers: Unit stands for 1.0
Unit == 10

TemperatureMin == 0 * Unit
TemperatureMax == 2 * Unit
TemperatureDefault == (7 * Unit) \div 10
MaxTokensMin == 1 * Unit
MaxTokensMax == 4096 * Unit
MaxTokensDefault == 150 * Unit
ModelDefault == "gpt-3.5-turbo"

Prompts == {"", "Hi"}
Models == {"gpt-3.5-turbo", "gpt-4", "gpt-4o", "gpt-4-turbo", "gpt-", "xgpt-4"}
Temperatures == {TemperatureMin - 1, TemperatureMin, TemperatureMax, TemperatureMax + 1}
MaxTokenses == {0, MaxTokensMin, (3 * Unit) \div 2, MaxTokensMax, MaxTokensMax + 1}
ApiKeys == {"", "sk-user"}
EnvKeys == {"", "sk-env"}

\* the objects over the optional fields opt and the always present field
\* values of req
RECURSIVE WithOptional(_, _)
WithOptional(base, opt) ==
    IF DOMAIN opt = {} THEN base
    ELSE LET f    == CHOOSE g \in DOMAIN opt : TRUE
             rest == WithOptional(base, [g \in DOMAIN opt \ {f} |-> opt[g]])
         IN  rest \cup { [g \in DOMAIN r \cup {f} |-> IF g = f THEN v ELSE r[g]] :
                         r \in rest, v \in opt[f] }

EmptyObject == [f \in {} |-> TRUE]

Bodies ==
    WithOptional({EmptyObject},
                 [prompt |-> Prompts, model |-> Models, temperature |-> Temperatures,
                  maxTokens |-> MaxTokenses, apiKey |-> ApiKeys])

Issue(cond, path, code) == IF cond THEN {[path |-> path, code |-> code]} ELSE {}

\* the issues zod reports for one body, each with the path of its field
Issues(b) ==
    Issue(~Has(b, "prompt"), "prompt", "invalid_type")
    \cup Issue(Has(b, "prompt") /\ Len(b.prompt) < 1, "prompt", "too_small")
    \cup Issue(Has(b, "temperature") /\ b.temperature < TemperatureMin,
               "temperature", "too_small")
    \cup Issue(Has(b, "temperature") /\ b.temperature > TemperatureMax,
               "temperature", "too_big")
    \cup Issue(Has(b, "maxTokens") /\ b.maxTokens < MaxTokensMin, "maxTokens", "too_small")
    \cup Issue(Has(b, "maxTokens") /\ b.maxTokens > MaxTokensMax, "maxTokens", "too_big")
    \cup Issue(~Has(b, "apiKey"), "apiKey", "invalid_type")
    \cup Issue(Has(b, "apiKey") /\ Len(b.apiKey) < 1, "apiKey", "too_small")

\* openaiRequestSchema.parse: the data with the defaults filled in
ValidatedData(b) ==
    [prompt      |-> b.prompt,
     model       |-> IF Has(b, "model") THEN b.model ELSE ModelDefault,
     temperature |-> IF Has(b, "temperature") THEN b.temperature ELSE TemperatureDefault,
     maxTokens   |-> IF Has(b, "maxTokens") THEN b.maxTokens ELSE MaxTokensDefault,
     apiKey      |-> b.apiKey]

\* the ZodError parse throws
ZodError(b) == [name |-> "ZodError", errors |-> Issues(b)]

----------------------------------------------------------------------------
(* The upstream: what openai.chat.completions.create settles with *)

Messages == WithOptional({[role |-> "assistant"]}, [content |-> {"Tea tea"}])

Usages == {[prompt_tokens |-> 2, completion_tokens |-> 3, total_tokens |-> 5]}

\* choices[0].logprobs: null, an object with content null, or one with a list
LogprobsOver(contents) == WithOptional({EmptyObject}, [content |-> contents])

ChoicesOver(contents) ==
    WithOptional([message : Messages], [logprobs |-> LogprobsOver(contents)])

\* the responses whose first choice carries one of contents, and the response
\* of no choice at all
ResponsesOver(contents) ==
    WithOptional({[choices |-> <<c>>] : c \in ChoicesOver(contents)} \cup {[choices |-> <<>>]},
                 [usage |-> Usages])

\* the values the call rejects with: an Error, with or without a message,
\* a status of its own (the SDK's APIError) and a response object that may
\* carry a status; or a thrown value that is no object
UpstreamErrors ==
    WithOptional({[isError |-> TRUE, message |-> "Upstream failed"],
                  [isError |-> TRUE, message |-> ""]},
                 [status   |-> {401},
                  response |-> WithOptional({[data |-> "details"]}, [status |-> {429}])])
    \cup {[isError |-> FALSE]}

----------------------------------------------------------------------------
(* The request forwarder: shared/schema.ts, getCompletionWithProbabilities *)

\* model.startsWith("gpt-4")
StartsWith(str, prefix) ==
    Len(str) >= Len(prefix) /\ SubSeq(str, 1, Len(prefix)) = prefix

\* a substitution for the identifier "gpt-4" alone
FinalModelExact(model) == IF model = "gpt-4" THEN "gpt-4o" ELSE model

\* line 82
FinalModel(model) == IF StartsWith(model, "gpt-4") THEN "gpt-4o" ELSE model

\* an || that prefers its second operand
OrElseSecond(a, b) == IF b # "" THEN b ELSE a

\* a || b on strings
OrElse(a, b) == IF a # "" THEN a ELSE b

\* lines 76-96: the client's credential and the arguments of create
CreateCall(data) ==
    [apiKey       |-> OrElse(envKey, data.apiKey),
     model        |-> FinalModel(data.model),
     messages     |-> <<[role |-> "user", content |-> data.prompt]>>,
     temperature  |-> data.temperature,
     max_tokens   |-> data.maxTokens,
     logprobs     |-> TRUE,
     top_logprobs |-> 5]

\* response.usage?.x || 0
UsageOf(response) ==
    IF Has(response, "usage")
    THEN [promptTokens     |-> response.usage.prompt_tokens,
          completionTokens |-> response.usage.completion_tokens,
          totalTokens      |-> response.usage.total_tokens]
    ELSE [promptTokens |-> 0, completionTokens |-> 0, totalTokens |-> 0]

\* lines 102-148: the value returned for a response that has a first choice
\* (responseTime, a reading of the clock, is left out)
CompletionResult(data, response) ==
    LET choice == response.choices[1]
    IN  [text               |-> IF Has(choice.message, "content")
                                THEN choice.message.content ELSE "",
         tokenProbabilities |-> TokenProbabilitiesOf(choice),
         usage              |-> UsageOf(response),
         model              |-> FinalModel(data.model)]

\* response.choices[0] of an empty list is undefined: reading .message throws
TypeError == [isError |-> TRUE, message |-> "Cannot read properties of undefined"]

\* lines 149-152: catch (error) { console.error(...); throw error; }
Rethrow(error) == error

----------------------------------------------------------------------------
(* The completion endpoint: server/routes.ts, lines 10-54 *)

IsZodError(error) == Has(error, "name") /\ error.name = "ZodError"

\* a || b on message texts; an absent message is undefined
MessageOr(error, fallback) ==
    IF Has(error, "message") /\ error.message # "" THEN error.message ELSE fallback

\* lines 26-53: the response the catch block sends for error
ErrorResponse(error) ==
    IF IsZodError(error)
    THEN [status |-> 400,
          body   |-> [message |-> "Invalid request data", errors |-> error.errors]]
    ELSE IF Has(error, "response") /\ Has(error.response, "status")
    THEN [status |-> error.response.status,
          body   |-> [message |-> MessageOr(error, "Error from OpenAI API"),
                      details |-> error.response.data]]
    ELSE [status |-> 500,
          body   |-> [message |-> IF error.isError
                                  THEN MessageOr(error, "Internal server error")
                                  ELSE "Unknown error"]]

\* the responses the upstream may give to a request of the endpoint
Responses == ResponsesOver(Contents(1, 2))

\* the passkey endpoint has received nothing and the passkey-gated page is
\* not open
LoginIdle ==
    /\ envPasskey = ""
    /\ verifications = <<>>
    /\ isAuthenticated = FALSE
    /\ passkey = ""
    /\ loggedOut = FALSE

\* the page of the client-supplied-credential variant is not open
CredentialIdle ==
    /\ apiKey = ""
    /\ showApiKeyModal = FALSE
    /\ modalApiKey = ""
    /\ prompt = ""
    /\ sent = <<>>
    /\ homeResponse = <<>>
    /\ cleared = FALSE
    /\ tokenCount = 0

\* selectedTokenIndex when no token is selected (null); indices count from 0
Null == -1

\* no results panel is on display
PanelIdle ==
    /\ panelResponse = <<>>
    /\ selectedTokenIndex = Null
    /\ currentTokenIndex = 0

\* a browser that has not opened the application: nothing stored either
ClientIdle ==
    /\ LoginIdle
    /\ localStorage = EmptyObject
    /\ CredentialIdle
    /\ PanelIdle

\* no concurrent requests
ConcurrentIdle ==
    /\ handlers = <<>>
    /\ calls = <<>>

\* a server that has received no request of the endpoint
EndpointIdle ==
    /\ pc = "idle"
    /\ body = EmptyObject
    /\ envKey = ""
    /\ upstreamCalls = <<>>
    /\ upstream = [kind |-> "none"]
    /\ thrown = <<>>
    /\ responses = <<>>

Init ==
    /\ pc = "received"
    /\ body \in Bodies
    /\ envKey \in EnvKeys
    /\ upstreamCalls = <<>>
    /\ upstream = [kind |-> "none"]
    /\ thrown = <<>>
    /\ responses = <<>>
    /\ ConcurrentIdle
    /\ ClientIdle

\* a handler that issues the upstream call before it validates
PostInvalidAfterCall ==
    /\ pc = "received"
    /\ Issues(body) # {}
    /\ upstreamCalls' = Append(upstreamCalls, [apiKey |-> envKey])
    /\ responses' = Append(responses, ErrorResponse(ZodError(body)))
    /\ pc' = "done"
    /\ UNCHANGED <<body, envKey, upstream, thrown>>
    /\ UNCHANGED <<concurrentVars, clientVars>>

\* a catch block whose ZodError branch does not return: it answers 400 and
\* then 500
PostInvalidNoReturn ==
    /\ pc = "received"
    /\ Issues(body) # {}
    /\ responses' = responses \o <<ErrorResponse(ZodError(body)),
                                    [status |-> 500,
                                     body   |-> [message |-> "Internal server error"]]>>
    /\ pc' = "done"
    /\ UNCHANGED <<body, envKey, upstreamCalls, upstream, thrown>>
    /\ UNCHANGED <<concurrentVars, clientVars>>

\* parse throws: the catch block answers 400
PostInvalid ==
    /\ pc = "received"
    /\ Issues(body) # {}
    /\ responses' = Append(responses, ErrorResponse(ZodError(body)))
    /\ pc' = "done"
    /\ UNCHANGED <<body, envKey, upstreamCalls, upstream, thrown>>
    /\ UNCHANGED <<concurrentVars, clientVars>>

\* parse returns: the forwarder issues the upstream call and awaits it
PostValid ==
    /\ pc = "received"
    /\ Issues(body) = {}
    /\ upstreamCalls' = Append(upstreamCalls, CreateCall(ValidatedData(body)))
    /\ upstream' = [kind |-> "pending"]
    /\ pc' = "awaiting"
    /\ UNCHANGED <<body, envKey, thrown, responses>>
    /\ UNCHANGED <<concurrentVars, clientVars>>

\* a forwarder without the guard of line 108: reading .content of a null
\* logprobs, or calling forEach on a null content, throws
CompletionResolvedUnguarded(response) ==
    /\ pc = "awaiting"
    /\ upstream' = [kind |-> "resolved", response |-> response]
    /\ IF /\ response.choices # <<>>
          /\ Has(response.choices[1], "logprobs")
          /\ Has(response.choices[1].logprobs, "content")
       THEN /\ thrown' = thrown
            /\ responses' = Append(responses,
                  [status |-> 200,
                   body   |-> CompletionResult(ValidatedData(body), response)])
       ELSE /\ thrown' = <<Rethrow(TypeError)>>
            /\ responses' = Append(responses, ErrorResponse(Rethrow(TypeError)))
    /\ pc' = "done"
    /\ UNCHANGED <<body, envKey, upstreamCalls>>
    /\ UNCHANGED <<concurrentVars, clientVars>>

\* the call resolves with response: the forwarder builds the result and the
\* handler sends it, or reading the response throws
CompletionResolved(response) ==
    /\ pc = "awaiting"
    /\ upstream' = [kind |-> "resolved", response |-> response]
    /\ IF response.choices # <<>>
       THEN /\ thrown' = thrown
            /\ responses' = Append(responses,
                  [status |-> 200,
                   body   |-> CompletionResult(ValidatedData(body), response)])
       ELSE /\ thrown' = <<Rethrow(TypeError)>>
            /\ responses' = Append(responses, ErrorResponse(Rethrow(TypeError)))
    /\ pc' = "done"
    /\ UNCHANGED <<body, envKey, upstreamCalls>>
    /\ UNCHANGED <<concurrentVars, clientVars>>

\* a forwarder that tries the call a second time before it gives up
CompletionRejectedRetry ==
    /\ pc = "awaiting"
    /\ \E error \in UpstreamErrors :
          IF Len(upstreamCalls) < 2
          THEN /\ upstreamCalls' = Append(upstreamCalls, upstreamCalls[1])
               /\ upstream' = [kind |-> "rejected", error |-> error]
               /\ UNCHANGED <<pc, thrown, responses>>
          ELSE /\ upstream' = [kind |-> "rejected", error |-> error]
               /\ thrown' = <<Rethrow(error)>>
               /\ responses' = Append(responses, ErrorResponse(Rethrow(error)))
               /\ pc' = "done"
               /\ UNCHANGED upstreamCalls
    /\ UNCHANGED <<body, envKey>>
    /\ UNCHANGED <<concurrentVars, clientVars>>

\* the call rejects: the forwarder rethrows and the catch block answers
CompletionRejected ==
    /\ pc = "awaiting"
    /\ \E error \in UpstreamErrors :
          /\ upstream' = [kind |-> "rejected", error |-> error]
          /\ thrown' = <<Rethrow(error)>>
          /\ responses' = Append(responses, ErrorResponse(Rethrow(error)))
    /\ pc' = "done"
    /\ UNCHANGED <<body, envKey, upstreamCalls>>
    /\ UNCHANGED <<concurrentVars, clientVars>>

EndpointResolved ==
    /\ pc = "awaiting"
    /\ \E response \in Responses : CompletionResolved(response)

Next == PostInvalid \/ PostValid \/ EndpointResolved \/ CompletionRejected

Spec == Init /\ [][Next]_vars

----------------------------------------------------------------------------
(* The normalizer on every bounded log-probability list: one valid request *)
(* whose upstream call resolves with any list of at most MaxContent entries *)
(* and MaxPairs pairs.                                                     *)

NormalizerBody ==
    [prompt |-> "Hi", model |-> "gpt-4", temperature |-> TemperatureMax,
     maxTokens |-> MaxTokensMin, apiKey |-> "sk-user"]

NormalizerResponse(content) ==
    [choices |-> <<[message  |-> [role |-> "assistant", content |-> "Tea tea"],
                    logprobs |-> [content |-> content]]>>]

InitNormalizer ==
    /\ pc = "received"
    /\ body = NormalizerBody
    /\ envKey = "sk-env"
    /\ upstreamCalls = <<>>
    /\ upstream = [kind |-> "none"]
    /\ thrown = <<>>
    /\ responses = <<>>
    /\ ConcurrentIdle
    /\ ClientIdle

NormalizerResolved ==
    /\ pc = "awaiting"
    /\ \E n \in 0..MaxContent : \E sizes \in Shapes(n, MaxPairs - n) :
          \E chosen \in [1..n -> Chosen], pool \in [1..SumSizes(sizes) -> TopLogprob] :
              CompletionResolved(NormalizerResponse(ContentOf(chosen, sizes, pool)))

NextNormalizer == PostValid \/ NormalizerResolved

SpecNormalizer == InitNormalizer /\ [][NextNormalizer]_vars

----------------------------------------------------------------------------
(* What the claims speak of *)

\* the request is answered with a result
Answered ==
    /\ pc = "done"
    /\ upstream.kind = "resolved"
    /\ Len(responses) = 1
    /\ responses[1].status = 200

\* the upstream response carries a log-probability list
HasContent ==
    /\ upstream.kind = "resolved"
    /\ upstream.response.choices # <<>>
    /\ Has(upstream.response.choices[1], "logprobs")
    /\ Has(upstream.response.choices[1].logprobs, "content")

\* the upstream's logprobs.content and the tokenProbabilities sent back
UpstreamContent == upstream.response.choices[1].logprobs.content
Emitted == responses[1].body.tokenProbabilities

HasTop(entry) == Has(entry, "top_logprobs")

\* the entries a record is emitted for
Kept == SelectSeq(UpstreamContent, HasTop)

\* p is exp(l * ln 2) to the precision of the lattice: p <= Scale * 2^l < p + 1
IsExpOf(p, l) == l <= 0 /\ p * Pow2(-l) <= Scale /\ Scale < (p + 1) * Pow2(-l)

TokensOf(s) == [i \in 1..Len(s) |-> s[i].token]

RECURSIVE IsSubsequence(_, _)
IsSubsequence(a, b) ==
    IF a = <<>> THEN TRUE
    ELSE IF b = <<>> THEN FALSE
    ELSE IF Head(a) = Head(b) THEN IsSubsequence(Tail(a), Tail(b))
    ELSE IsSubsequence(a, Tail(b))

----------------------------------------------------------------------------
\* C1: no alternative of an emitted record has a token text exactly equal to
\* the record's chosen token text, for any upstream log-probability list.
C1_NoChosenAmongAlternatives ==
    (Answered /\ HasContent) =>
        \A i \in 1..Len(Emitted) : \A j \in 1..Len(Emitted[i].alternatives) :
            Emitted[i].alternatives[j].token # Emitted[i].token

\* an entry whose top_logprobs repeat its chosen token has been normalized
C1_Witness ==
    /\ Answered /\ HasContent
    /\ \E i \in 1..Len(Kept) : \E j \in 1..Len(Kept[i].top_logprobs) :
          Kept[i].top_logprobs[j].token = Kept[i].token

\* C2: the alternatives of every emitted record are sorted by non-increasing
\* probability, whatever order the upstream top_logprobs arrived in.
C2_AlternativesSorted ==
    (Answered /\ HasContent) =>
        \A i \in 1..Len(Emitted) : \A j \in 1..(Len(Emitted[i].alternatives) - 1) :
            Emitted[i].alternatives[j].probability
                >= Emitted[i].alternatives[j + 1].probability

\* an entry whose alternatives arrived in increasing order has been normalized
C2_Witness ==
    /\ Answered /\ HasContent
    /\ \E i \in 1..Len(Kept) : \E j, k \in 1..Len(Kept[i].top_logprobs) :
          /\ j < k
          /\ Kept[i].top_logprobs[j].token # Kept[i].token
          /\ Kept[i].top_logprobs[k].token # Kept[i].token
          /\ Kept[i].top_logprobs[j].logprob < Kept[i].top_logprobs[k].logprob
    /\ \E i \in 1..Len(Emitted) : Len(Emitted[i].alternatives) >= 2

\* C3: the chosen tokens of the emitted records appear in the same relative
\* order as the entries of the upstream logprobs.content list.
C3_OrderPreserved ==
    (Answered /\ HasContent) =>
        IsSubsequence(TokensOf(Emitted), TokensOf(UpstreamContent))

\* records of different tokens have been emitted for a list of several entries
C3_Witness ==
    /\ Answered /\ HasContent
    /\ Len(Emitted) >= 2
    /\ Emitted[1].token # Emitted[2].token

\* C4: every entry of the upstream list yields exactly one record: the output
\* has the length of the input and its i-th record carries the i-th entry's
\* chosen token, also for entries without top_logprobs.
C4_OneRecordPerEntry ==
    (Answered /\ HasContent) =>
        /\ Len(Emitted) = Len(UpstreamContent)
        /\ \A i \in 1..Len(Emitted) : Emitted[i].token = UpstreamContent[i].token

\* C5: the probability emitted for a chosen token is exp of its entry's
\* logprob, and the probability of each retained alternative is exp of that
\* alternative's logprob, within the precision of the arithmetic.
C5_ProbabilityIsExp ==
    (Answered /\ HasContent) =>
        /\ Len(Emitted) = Len(Kept)
        /\ \A i \in 1..Len(Emitted) :
              /\ IsExpOf(Emitted[i].probability, Kept[i].logprob)
              /\ \A j \in 1..Len(Emitted[i].alternatives) :
                    \E k \in 1..Len(Kept[i].top_logprobs) :
                        /\ Kept[i].top_logprobs[k].token = Emitted[i].alternatives[j].token
                        /\ IsExpOf(Emitted[i].alternatives[j].probability,
                                   Kept[i].top_logprobs[k].logprob)

\* a record with an alternative has been emitted, one probability of which is
\* positive and one underflowed
C5_Witness ==
    /\ Answered /\ HasContent
    /\ \E i \in 1..Len(Emitted) :
          /\ Emitted[i].probability > 0
          /\ Len(Emitted[i].alternatives) >= 1
          /\ Emitted[i].alternatives[1].probability # Emitted[i].probability

\* C6: when the upstream response carries no log-probability data (logprobs
\* null, content null or an empty content list), the forwarder throws nothing
\* and the endpoint answers 200 with an empty tokenProbabilities.
NoLogprobData ==
    /\ upstream.kind = "resolved"
    /\ upstream.response.choices # <<>>
    /\ \/ ~Has(upstream.response.choices[1], "logprobs")
       \/ ~Has(upstream.response.choices[1].logprobs, "content")
       \/ upstream.response.choices[1].logprobs.content = <<>>

C6_EmptyDataIsNoError ==
    (pc = "done" /\ NoLogprobData) =>
        /\ thrown = <<>>
        /\ Len(responses) = 1
        /\ responses[1].status = 200
        /\ responses[1].body.tokenProbabilities = <<>>

\* a response whose logprobs object has a null content has been answered
C6_Witness ==
    /\ pc = "done"
    /\ NoLogprobData
    /\ Has(upstream.response.choices[1], "logprobs")
    /\ ~Has(upstream.response.choices[1].logprobs, "content")
    /\ Len(responses) = 1

\* C7: the alternatives emitted for an entry are exactly its top_logprobs
\* elements whose token differs from the chosen token under exact text
\* comparison, none dropped and none added, sorted descending by probability;
\* an alternative differing only in letter case or whitespace is kept.
Occurrences(alternatives, a) ==
    Cardinality({j \in 1..Len(alternatives) : alternatives[j] = a})

Sources(top, mainToken, a) ==
    Cardinality({k \in 1..Len(top) : /\ top[k].token # mainToken
                                     /\ top[k].token = a.token
                                     /\ IsExpOf(a.probability, top[k].logprob)})

C7_AlternativesExact ==
    (Answered /\ HasContent) =>
        /\ Len(Emitted) = Len(Kept)
        /\ \A i \in 1..Len(Emitted) :
              LET alternatives == Emitted[i].alternatives
                  top          == Kept[i].top_logprobs
              IN  /\ Emitted[i].token = Kept[i].token
                  /\ Len(alternatives)
                       = Cardinality({k \in 1..Len(top) : top[k].token # Kept[i].token})
                  /\ \A j \in 1..Len(alternatives) :
                        Occurrences(alternatives, alternatives[j])
                            = Sources(top, Kept[i].token, alternatives[j])
                  /\ \A j \in 1..(Len(alternatives) - 1) :
                        alternatives[j].probability >= alternatives[j + 1].probability

\* the example of the specification on the tokens of the model: chosen "Tea"
\* with the alternatives tea, Tea and " Tea" yields " Tea" and tea
C7_Witness ==
    /\ Answered /\ HasContent
    /\ UpstreamContent =
          << [token |-> "Tea", logprob |-> -1,
              top_logprobs |-> << [token |-> "tea", logprob |-> -6],
                                  [token |-> "Tea", logprob |-> -1],
                                  [token |-> " Tea", logprob |-> -1] >>] >>
    /\ TokensOf(Emitted[1].alternatives) = <<" Tea", "tea">>

\* C8: the model sent upstream and reported in the result is "gpt-4o" for
\* every requested identifier that begins with "gpt-4" and the requested
\* identifier otherwise; the substitution maps its own output to itself.
BeginsWithGpt4(model) ==
    \E k \in 0..Len(model) : model = "gpt-4" \o SubSeq(model, Len(model) - k + 1, Len(model))

RequestedModel == IF Has(body, "model") THEN body.model ELSE ModelDefault

EffectiveModel == IF BeginsWithGpt4(RequestedModel) THEN "gpt-4o" ELSE RequestedModel

C8_EffectiveModel ==
    /\ \A i \in 1..Len(upstreamCalls) :
          /\ upstreamCalls[i].model = EffectiveModel
          /\ BeginsWithGpt4(upstreamCalls[i].model) => upstreamCalls[i].model = "gpt-4o"
    /\ Answered =>
          /\ responses[1].body.model = EffectiveModel
          /\ BeginsWithGpt4(responses[1].body.model) => responses[1].body.model = "gpt-4o"

\* a request for "gpt-4-turbo" has been answered with a result
C8_Witness ==
    /\ Answered
    /\ Has(body, "model")
    /\ body.model = "gpt-4-turbo"
    /\ responses[1].body.model = "gpt-4o"

\* C9: a request whose body fails schema validation is answered 400 with the
\* field-level errors, and no upstream call is issued for it, neither before
\* nor after the answer.
C9_InvalidIsRejected ==
    Issues(body) # {} =>
        /\ upstreamCalls = <<>>
        /\ upstream.kind = "none"
        /\ pc \in {"received", "done"}
        /\ pc = "done" =>
              /\ Len(responses) = 1
              /\ responses[1].status = 400
              /\ responses[1].body.errors = Issues(body)
              /\ \A e \in responses[1].body.errors :
                    e.path \in {"prompt", "temperature", "maxTokens", "apiKey"}

\* a body with an empty prompt has been answered
C9_Witness ==
    /\ pc = "done"
    /\ Has(body, "prompt")
    /\ body.prompt = ""
    /\ Len(responses) = 1
    /\ responses[1].status = 400

\* C10: when the upstream call fails, the endpoint answers with the upstream's
\* status code whenever the failure carries one and with 500 otherwise, and
\* the forwarder throws the very error the call raised.
CarriedStatus(error) ==
    IF Has(error, "response") /\ Has(error.response, "status") THEN error.response.status
    ELSE IF Has(error, "status") THEN error.status
    ELSE 500

C10_UpstreamStatusMirrored ==
    (pc = "done" /\ upstream.kind = "rejected") =>
        /\ thrown = <<upstream.error>>
        /\ Len(responses) = 1
        /\ responses[1].status = CarriedStatus(upstream.error)

\* C11: a completion request issues at most one upstream call, exactly one
\* when it passes validation and none otherwise; after an upstream failure no
\* second attempt is made.
C11_SingleAttempt ==
    /\ Len(upstreamCalls) <= 1
    /\ pc = "done" => Len(upstreamCalls) = (IF Issues(body) = {} THEN 1 ELSE 0)
    /\ upstream.kind = "rejected" => (pc = "done" /\ Len(upstreamCalls) = 1)

\* an upstream failure has been answered
C11_Witness ==
    /\ pc = "done"
    /\ upstream.kind = "rejected"
    /\ Len(upstreamCalls) = 1
    /\ Len(responses) = 1

\* C12: the credential is optional: a request with a non-empty prompt,
\* in-range temperature and maxTokens and no credential passes validation and
\* is forwarded upstream instead of being answered 400.
WithoutCredential ==
    /\ Has(body, "prompt") /\ body.prompt # ""
    /\ Has(body, "temperature") =>
          (body.temperature >= TemperatureMin /\ body.temperature <= TemperatureMax)
    /\ Has(body, "maxTokens") =>
          (body.maxTokens >= MaxTokensMin /\ body.maxTokens <= MaxTokensMax)
    /\ ~Has(body, "apiKey")

C12_CredentialOptional ==
    (pc = "done" /\ WithoutCredential) =>
        /\ Len(upstreamCalls) = 1
        /\ \A i \in 1..Len(responses) : responses[i].status # 400

\* C13: an upstream call is issued only for a request whose prompt is
\* non-empty, whose temperature lies in [0,2] and whose maxTokens is an integer
\* in [1,4096].
IsInteger(x) == x % Unit = 0

C13_OnlyValidReachUpstream ==
    upstreamCalls # <<>> =>
        /\ Has(body, "prompt") /\ body.prompt # ""
        /\ Has(body, "temperature") =>
              (body.temperature >= TemperatureMin /\ body.temperature <= TemperatureMax)
        /\ Has(body, "maxTokens") =>
              /\ body.maxTokens >= MaxTokensMin
              /\ body.maxTokens <= MaxTokensMax
              /\ IsInteger(body.maxTokens)

\* C20: the credential of the upstream call is the environment's credential
\* whenever it is set, whatever the request carries; the request's credential
\* is used only when the environment's is absent or empty.
C20_EnvironmentCredentialFirst ==
    \A i \in 1..Len(upstreamCalls) :
        upstreamCalls[i].apiKey = (IF envKey # "" THEN envKey ELSE body.apiKey)

\* a request with a credential of its own has been forwarded with the
\* environment's
C20_Witness ==
    /\ Len(upstreamCalls) = 1
    /\ envKey # ""
    /\ body.apiKey # envKey
    /\ upstreamCalls[1].apiKey = envKey

----------------------------------------------------------------------------
(* The passkey endpoint (server/routes.ts, lines 62-90), verifyPasskey     *)
(* (client/src/lib/api.ts) and the passkey-gated page (Home with           *)
(* handleAuthenticate and handleLogout).  The page runs in one browser tab; *)
(* any other client may post to the endpoint as well.                      *)

\* most requests to the passkey endpoint in one behaviour
MaxVerifications == 2

Passkeys == {"", "secret", "guess"}
EnvPasskeys == {"", "secret"}

\* JSON.stringify of a string without characters to escape
JsonStringify(s) == "\"" \o s \o "\""

\* item is the JSON text of a string
IsJsonString(item) ==
    /\ Len(item) >= 2
    /\ SubSeq(item, 1, 1) = "\""
    /\ SubSeq(item, Len(item), Len(item)) = "\""

\* JSON texts of values that are not strings: a number, null, an array
NonStringTexts == {"123", "null", "[\"secret\"]"}

\* req.body of POST /api/verify-passkey as express.json() parsed it; the value
\* of a property is held as its JSON text
PasskeyBodies ==
    WithOptional({EmptyObject},
                 [passkey |-> {JsonStringify(p) : p \in Passkeys} \cup NonStringTexts])

\* the key of the stored flag
AuthKey == "token-explorer-auth"

\* localStorage.setItem(key, value)
SetItem(storage, key, value) ==
    [k \in DOMAIN storage \cup {key} |-> IF k = key THEN value ELSE storage[k]]

\* localStorage.removeItem(key)
RemoveItem(storage, key) == [k \in DOMAIN storage \ {key} |-> storage[k]]

\* localStorage.getItem("token-explorer-auth") === "true"
StoredAuth == Has(localStorage, AuthKey) /\ localStorage[AuthKey] = "true"

\* a handler that compares before it looks at the configuration
VerifyPasskeyResponseUnchecked(reqBody, correctPasskey) ==
    IF Has(reqBody, "passkey") /\ reqBody.passkey = JsonStringify(correctPasskey)
    THEN [status |-> 200, body |-> [success |-> TRUE]]
    ELSE [status |-> 401, body |-> [success |-> FALSE, message |-> "Invalid passkey"]]

\* value == s of JavaScript for the value with JSON text item and the string
\* s: an array of one element is converted to that element
LooseEquals(item, s) ==
    \/ item = JsonStringify(s)
    \/ item = "[" \o JsonStringify(s) \o "]"

\* a handler that compares with == where the code compares with ===
VerifyPasskeyResponseLoose(reqBody, correctPasskey) ==
    IF correctPasskey = ""
    THEN [status |-> 500,
          body   |-> [error |-> "Server configuration error: No passkey configured"]]
    ELSE IF Has(reqBody, "passkey") /\ LooseEquals(reqBody.passkey, correctPasskey)
    THEN [status |-> 200, body |-> [success |-> TRUE]]
    ELSE [status |-> 401, body |-> [success |-> FALSE, message |-> "Invalid passkey"]]

\* routes.ts, lines 64-83: the answer to a request with body reqBody when
\* process.env.EXPLORER_PASSKEY is correctPasskey; passkey === correctPasskey
\* holds when the passkey is a string and the same string
VerifyPasskeyResponse(reqBody, correctPasskey) ==
    IF correctPasskey = ""
    THEN [status |-> 500,
          body   |-> [error |-> "Server configuration error: No passkey configured"]]
    ELSE IF Has(reqBody, "passkey") /\ reqBody.passkey = JsonStringify(correctPasskey)
    THEN [status |-> 200, body |-> [success |-> TRUE]]
    ELSE [status |-> 401, body |-> [success |-> FALSE, message |-> "Invalid passkey"]]

\* response.ok of fetch
Ok(res) == res.status >= 200 /\ res.status <= 299

InitLogin ==
    /\ EndpointIdle
    /\ ConcurrentIdle
    /\ envPasskey \in EnvPasskeys
    /\ verifications = <<>>
    /\ localStorage = EmptyObject
    /\ isAuthenticated = FALSE
    /\ passkey = ""
    /\ loggedOut = FALSE
    /\ CredentialIdle
    /\ PanelIdle

\* the user edits the passkey field of the passkey screen
SetPasskey ==
    /\ ~isAuthenticated
    /\ \E p \in Passkeys \ {passkey} : passkey' = p
    /\ UNCHANGED <<envPasskey, verifications, isAuthenticated, loggedOut, localStorage>>
    /\ UNCHANGED <<endpointVars, concurrentVars, credentialVars, panelVars>>

\* the form of the passkey screen is submitted: handleAuthenticate runs up to
\* the fetch of verifyPasskey, whose body is JSON.stringify({ passkey })
HandleAuthenticate ==
    /\ ~isAuthenticated
    /\ Len(verifications) < MaxVerifications
    /\ verifications' = Append(verifications,
          [origin |-> "page", body |-> [passkey |-> JsonStringify(passkey)],
           state  |-> "sent"])
    /\ loggedOut' = FALSE
    /\ UNCHANGED <<envPasskey, isAuthenticated, passkey, localStorage>>
    /\ UNCHANGED <<endpointVars, concurrentVars, credentialVars, panelVars>>

\* some other client posts to the endpoint
PostVerifyPasskey ==
    /\ Len(verifications) < MaxVerifications
    /\ \E reqBody \in PasskeyBodies :
          verifications' = Append(verifications,
              [origin |-> "other", body |-> reqBody, state |-> "sent"])
    /\ UNCHANGED <<envPasskey, isAuthenticated, passkey, loggedOut, localStorage>>
    /\ UNCHANGED <<endpointVars, concurrentVars, credentialVars, panelVars>>

\* the handler of POST /api/verify-passkey answers one request
VerifyPasskey ==
    /\ \E i \in 1..Len(verifications) :
          /\ verifications[i].state = "sent"
          /\ verifications' = [verifications EXCEPT ![i] =
                [origin   |-> @.origin,
                 body     |-> @.body,
                 state    |-> "answered",
                 response |-> VerifyPasskeyResponse(@.body, envPasskey)]]
    /\ UNCHANGED <<envPasskey, isAuthenticated, passkey, loggedOut, localStorage>>
    /\ UNCHANGED <<endpointVars, concurrentVars, credentialVars, panelVars>>

\* verifyPasskey returns: handleAuthenticate sets the flag of the page and the
\* stored flag
AuthenticateResolved ==
    /\ \E i \in 1..Len(verifications) :
          /\ verifications[i].origin = "page"
          /\ verifications[i].state = "answered"
          /\ Ok(verifications[i].response)
          /\ verifications' = [verifications EXCEPT ![i].state = "settled"]
    /\ isAuthenticated' = TRUE
    /\ localStorage' = SetItem(localStorage, AuthKey, "true")
    /\ UNCHANGED <<envPasskey, passkey, loggedOut>>
    /\ UNCHANGED <<endpointVars, concurrentVars, credentialVars, panelVars>>

\* verifyPasskey throws, on an answer that is not ok or on a failed fetch:
\* the catch block of handleAuthenticate shows a toast
AuthenticateRejected ==
    /\ \E i \in 1..Len(verifications) :
          /\ verifications[i].origin = "page"
          /\ \/ verifications[i].state = "sent"
             \/ verifications[i].state = "answered" /\ ~Ok(verifications[i].response)
          /\ verifications' = [verifications EXCEPT ![i].state = "settled"]
    /\ UNCHANGED <<envPasskey, isAuthenticated, passkey, loggedOut, localStorage>>
    /\ UNCHANGED <<endpointVars, concurrentVars, credentialVars, panelVars>>

\* the LOGOUT button of the authenticated page
HandleLogout ==
    /\ isAuthenticated
    /\ isAuthenticated' = FALSE
    /\ localStorage' = RemoveItem(localStorage, AuthKey)
    /\ loggedOut' = TRUE
    /\ UNCHANGED <<envPasskey, verifications, passkey>>
    /\ UNCHANGED <<endpointVars, concurrentVars, credentialVars, panelVars>>

\* the state of a request of the page once the page that sent it is gone
Abandoned(v) ==
    IF v.origin = "page" /\ v.state # "settled"
    THEN [origin |-> v.origin, body |-> v.body, state |-> "abandoned"]
    ELSE v

\* the page is loaded again: the state of Home starts afresh, the effect of
\* the mount reads the stored flag, and no continuation of the old page runs
Mount ==
    /\ isAuthenticated' = StoredAuth
    /\ passkey' = ""
    /\ verifications' = [i \in 1..Len(verifications) |-> Abandoned(verifications[i])]
    /\ \/ isAuthenticated' # isAuthenticated
       \/ passkey' # passkey
       \/ verifications' # verifications
    /\ UNCHANGED <<envPasskey, loggedOut, localStorage>>
    /\ UNCHANGED <<endpointVars, concurrentVars, credentialVars, panelVars>>

NextLogin ==
    \/ SetPasskey
    \/ HandleAuthenticate
    \/ PostVerifyPasskey
    \/ VerifyPasskey
    \/ AuthenticateResolved
    \/ AuthenticateRejected
    \/ HandleLogout
    \/ Mount

SpecLogin == InitLogin /\ [][NextLogin]_vars

\* C14: every answer of the passkey endpoint is 500 when the server-held
\* secret is not configured, 200 when it is configured and the submitted
\* passkey equals it, and 401 when it is configured and the passkey differs.
C14_PasskeyStatus ==
    \A i \in 1..Len(verifications) :
        Has(verifications[i], "response") =>
            LET reqBody == verifications[i].body
                status  == verifications[i].response.status
            IN  /\ envPasskey = "" => status = 500
                /\ (envPasskey # "" /\ Has(reqBody, "passkey")
                      /\ reqBody.passkey = JsonStringify(envPasskey)) => status = 200
                /\ (envPasskey # "" /\ Has(reqBody, "passkey")
                      /\ reqBody.passkey # JsonStringify(envPasskey)) => status = 401

\* the endpoint has answered two requests: one with the secret, one without
C14_Witness ==
    /\ envPasskey # ""
    /\ \E i, j \in 1..Len(verifications) :
          /\ Has(verifications[i], "response")
          /\ Has(verifications[j], "response")
          /\ verifications[i].response.status = 200
          /\ verifications[j].response.status = 401

\* C21: the passkey endpoint looks at its configuration before it looks at
\* the request: with no secret configured every request is answered 500,
\* whatever its body; with a secret configured, a request whose passkey is
\* missing or is not a string is answered 401.
C21_ConfigurationFirst ==
    \A i \in 1..Len(verifications) :
        Has(verifications[i], "response") =>
            LET reqBody == verifications[i].body
                status  == verifications[i].response.status
            IN  /\ envPasskey = "" => status = 500
                /\ (envPasskey # "" /\ ~Has(reqBody, "passkey")) => status = 401
                /\ (envPasskey # "" /\ Has(reqBody, "passkey")
                      /\ ~IsJsonString(reqBody.passkey)) => status = 401

\* with a secret configured the endpoint has answered a request without a
\* passkey and a request whose passkey is an array holding the secret
C21_Witness ==
    /\ envPasskey # ""
    /\ \E i, j \in 1..Len(verifications) :
          /\ Has(verifications[i], "response")
          /\ ~Has(verifications[i].body, "passkey")
          /\ Has(verifications[j], "response")
          /\ Has(verifications[j].body, "passkey")
          /\ verifications[j].body.passkey = "[" \o JsonStringify(envPasskey) \o "]"

\* C18: the flag of the page and the stored flag agree, so a mount starts
\* authenticated exactly when a verification has succeeded and no logout has
\* followed; the flags are set only by a verification that succeeded; and once
\* the user has logged out both flags stay cleared until a passkey is
\* submitted again.
C18_LoginRemembered ==
    /\ isAuthenticated <=> StoredAuth
    /\ StoredAuth =>
          \E i \in 1..Len(verifications) :
              /\ verifications[i].origin = "page"
              /\ verifications[i].state = "settled"
              /\ Has(verifications[i], "response")
              /\ verifications[i].response.status = 200
    /\ loggedOut => (~isAuthenticated /\ ~StoredAuth)

----------------------------------------------------------------------------
(* The page of the client-supplied-credential variant: Home with           *)
(* useLocalStorage("openai_api_key", ""), ApiKeyModal and handleSubmit.    *)

\* most requests the page sends in one behaviour
MaxSent == 2

\* the key of the stored credential
ApiKeyKey == "openai_api_key"

\* texts of the field of the dialog
ModalApiKeys == {"", " ", "sk-a", "sk-b"}

\* texts of the prompt field; the first is the default of the page
DefaultPrompt == "Water, Tea or Coffee?"
ClientPrompts == {DefaultPrompt, "", " "}

\* !s.trim(): s has white space only
IsBlank(s) == \A i \in 1..Len(s) : SubSeq(s, i, i) = " "

\* hooks.ts, lines 7-20: readValue of useLocalStorage
ReadValue(storage, key, initialValue) ==
    IF ~Has(storage, key) \/ storage[key] = "" THEN initialValue
    ELSE IF IsJsonString(storage[key])
    THEN SubSeq(storage[key], 2, Len(storage[key]) - 1)
    ELSE initialValue

\* the state of Home after its first render and the effects of the mount
MountedCredential(storage) ==
    /\ apiKey' = ReadValue(storage, ApiKeyKey, "")
    /\ showApiKeyModal' = (ReadValue(storage, ApiKeyKey, "") = "")
    /\ modalApiKey' = ""
    /\ prompt' = DefaultPrompt

InitCredential ==
    /\ EndpointIdle
    /\ ConcurrentIdle
    /\ LoginIdle
    /\ PanelIdle
    /\ localStorage = EmptyObject
    /\ apiKey = ReadValue(EmptyObject, ApiKeyKey, "")
    /\ showApiKeyModal = TRUE
    /\ modalApiKey = ""
    /\ prompt = DefaultPrompt
    /\ sent = <<>>
    /\ homeResponse = <<>>
    /\ cleared = FALSE
    /\ tokenCount = 0

\* the user edits the field of the dialog
SetModalApiKey ==
    /\ showApiKeyModal
    /\ \E key \in ModalApiKeys \ {modalApiKey} : modalApiKey' = key
    /\ UNCHANGED <<apiKey, showApiKeyModal, prompt, sent, localStorage>>
    /\ UNCHANGED <<homeResponse, cleared, tokenCount>>
    /\ UNCHANGED <<endpointVars, concurrentVars, loginVars, panelVars>>

\* a dialog that saves whatever its field holds
ModalHandleSaveUnchecked ==
    /\ showApiKeyModal
    /\ localStorage' = SetItem(localStorage, ApiKeyKey, JsonStringify(modalApiKey))
    /\ apiKey' = modalApiKey
    /\ showApiKeyModal' = (modalApiKey = "")
    /\ UNCHANGED <<modalApiKey, prompt, sent>>
    /\ UNCHANGED <<homeResponse, cleared, tokenCount>>
    /\ UNCHANGED <<endpointVars, concurrentVars, loginVars, panelVars>>

\* Save of the dialog: ApiKeyModal.handleSave, then Home.handleSaveApiKey
\* with setValue of useLocalStorage, then onClose
ModalHandleSave ==
    /\ showApiKeyModal
    /\ IF IsBlank(modalApiKey)
       THEN UNCHANGED <<apiKey, showApiKeyModal, localStorage>>
       ELSE /\ localStorage' = SetItem(localStorage, ApiKeyKey, JsonStringify(modalApiKey))
            /\ apiKey' = modalApiKey
            /\ showApiKeyModal' = FALSE
    /\ UNCHANGED <<modalApiKey, prompt, sent>>
    /\ UNCHANGED <<homeResponse, cleared, tokenCount>>
    /\ UNCHANGED <<endpointVars, concurrentVars, loginVars, panelVars>>

\* Cancel of the dialog: onClose
ModalClose ==
    /\ showApiKeyModal
    /\ showApiKeyModal' = FALSE
    /\ UNCHANGED <<apiKey, modalApiKey, prompt, sent, localStorage>>
    /\ UNCHANGED <<homeResponse, cleared, tokenCount>>
    /\ UNCHANGED <<endpointVars, concurrentVars, loginVars, panelVars>>

\* the API Key button of the header: the dialog opens and its effect copies
\* the current key into the field
ShowApiKeyModal ==
    /\ ~showApiKeyModal
    /\ showApiKeyModal' = TRUE
    /\ modalApiKey' = apiKey
    /\ UNCHANGED <<apiKey, prompt, sent, localStorage>>
    /\ UNCHANGED <<homeResponse, cleared, tokenCount>>
    /\ UNCHANGED <<endpointVars, concurrentVars, loginVars, panelVars>>

\* the user edits the prompt
SetPrompt ==
    /\ ~showApiKeyModal
    /\ \E text \in ClientPrompts \ {prompt} : prompt' = text
    /\ UNCHANGED <<apiKey, showApiKeyModal, modalApiKey, sent, localStorage>>
    /\ UNCHANGED <<homeResponse, cleared, tokenCount>>
    /\ UNCHANGED <<endpointVars, concurrentVars, loginVars, panelVars>>

\* the masking character of the key field of the input panel (U+2022 in
\* the source)
Bullet == "*"

\* apiKeyInput.includes(Bullet)
IncludesBullet(s) == \E i \in 1..Len(s) : SubSeq(s, i, i) = Bullet

\* what the user may have typed into the key field of the input panel
ApiKeyInputs == ModalApiKeys \cup {"****"}

\* part_003, lines 74-90: saveApiKey of the input panel for the text
\* apiKeyInput, then Home.handleSaveApiKey with setValue of useLocalStorage
SaveApiKey ==
    /\ ~showApiKeyModal
    /\ \E apiKeyInput \in ApiKeyInputs :
          IF apiKeyInput # "" /\ ~IncludesBullet(apiKeyInput)
          THEN /\ localStorage' = SetItem(localStorage, ApiKeyKey, JsonStringify(apiKeyInput))
               /\ apiKey' = apiKeyInput
          ELSE UNCHANGED <<apiKey, localStorage>>
    /\ UNCHANGED <<showApiKeyModal, modalApiKey, prompt, sent>>
    /\ UNCHANGED <<homeResponse, cleared, tokenCount>>
    /\ UNCHANGED <<endpointVars, concurrentVars, loginVars, panelVars>>

\* mutation.isPending: a request of the page is in flight
IsPending == \E i \in 1..Len(sent) : sent[i].state = "pending"

\* the CONTINUE button, enabled unless a request is in flight or the prompt
\* is blank (part_003, lines 248-250), runs handleSubmit (part_001, lines
\* 458-480) with the request of mutation.mutate
HandleSubmit ==
    /\ ~showApiKeyModal
    /\ ~IsPending
    /\ ~IsBlank(prompt)
    /\ Len(sent) < MaxSent
    /\ IF apiKey = ""
       THEN /\ showApiKeyModal' = TRUE
            /\ modalApiKey' = apiKey
            /\ UNCHANGED <<sent, cleared>>
       ELSE IF IsBlank(prompt)
       THEN UNCHANGED <<showApiKeyModal, modalApiKey, sent, cleared>>
       ELSE /\ sent' = Append(sent,
                  [url   |-> "/api/openai",
                   data  |-> [prompt      |-> prompt,
                              model       |-> ModelDefault,
                              temperature |-> TemperatureDefault,
                              maxTokens   |-> MaxTokensDefault,
                              apiKey      |-> apiKey],
                   state |-> "pending"])
            /\ cleared' = FALSE
            /\ UNCHANGED <<showApiKeyModal, modalApiKey>>
    /\ UNCHANGED <<apiKey, prompt, localStorage>>
    /\ UNCHANGED <<homeResponse, tokenCount>>
    /\ UNCHANGED <<endpointVars, concurrentVars, loginVars, panelVars>>

\* responses of the server to a request of the page
HomeResponses ==
    {[text |-> "Tea", tokenProbabilities |-> NormalizeContent(<<>>)],
     [text |-> "Coffee", tokenProbabilities |-> NormalizeContent(<<>>)]}

\* the request in flight succeeds: onSuccess of the mutation, setResponse(data)
MutationSucceeded ==
    /\ \E i \in 1..Len(sent) :
          /\ sent[i].state = "pending"
          /\ sent' = [sent EXCEPT ![i].state = "succeeded"]
    /\ \E data \in HomeResponses : homeResponse' = <<data>>
    /\ UNCHANGED <<apiKey, showApiKeyModal, modalApiKey, prompt, localStorage>>
    /\ UNCHANGED <<cleared, tokenCount>>
    /\ UNCHANGED <<endpointVars, concurrentVars, loginVars, panelVars>>

\* the request in flight fails: onError of the mutation shows a toast
MutationFailed ==
    /\ \E i \in 1..Len(sent) :
          /\ sent[i].state = "pending"
          /\ sent' = [sent EXCEPT ![i].state = "failed"]
    /\ UNCHANGED <<apiKey, showApiKeyModal, modalApiKey, prompt, localStorage>>
    /\ UNCHANGED <<homeResponse, cleared, tokenCount>>
    /\ UNCHANGED <<endpointVars, concurrentVars, loginVars, panelVars>>

\* the CLEAR RESPONSE button (part_003, lines 256-263) runs
\* handleClearResponse (part_001, lines 483-485)
HomeHandleClearResponse ==
    /\ ~showApiKeyModal
    /\ homeResponse' = <<>>
    /\ cleared' = TRUE
    /\ UNCHANGED <<apiKey, showApiKeyModal, modalApiKey, prompt, sent, localStorage>>
    /\ UNCHANGED tokenCount
    /\ UNCHANGED <<endpointVars, concurrentVars, loginVars, panelVars>>

\* the state of a request once the page that sent it is gone
AbandonedRequest(request) ==
    IF request.state = "pending"
    THEN [request EXCEPT !.state = "abandoned"]
    ELSE request

\* the page is loaded again: the state of Home starts afresh and no
\* continuation of the old page runs
MountCredential ==
    /\ MountedCredential(localStorage)
    /\ sent' = [i \in 1..Len(sent) |-> AbandonedRequest(sent[i])]
    /\ homeResponse' = <<>>
    /\ <<apiKey, showApiKeyModal, modalApiKey, prompt, sent, homeResponse>>'
          # <<apiKey, showApiKeyModal, modalApiKey, prompt, sent, homeResponse>>
    /\ UNCHANGED localStorage
    /\ UNCHANGED <<cleared, tokenCount>>
    /\ UNCHANGED <<endpointVars, concurrentVars, loginVars, panelVars>>

NextCredential ==
    \/ SetModalApiKey
    \/ ModalHandleSave
    \/ ModalClose
    \/ ShowApiKeyModal
    \/ SetPrompt
    \/ SaveApiKey
    \/ HandleSubmit
    \/ MutationSucceeded
    \/ MutationFailed
    \/ HomeHandleClearResponse
    \/ MountCredential

SpecCredential == InitCredential /\ [][NextCredential]_vars

\* C15: the API key the user saved stays in the browser: no request the page
\* has sent to the application's server carries an API key.
C15_KeyStaysInBrowser ==
    \A i \in 1..Len(sent) : ~Has(sent[i].data, "apiKey")

\* C24: after the user clears the response the page shows no response until
\* the user submits a new request: no completion of a request submitted
\* before the clear makes a response reappear.
C24_ClearedStaysEmpty == cleared => homeResponse = <<>>

\* a step that sends a request starts from a stored key that is not empty
NoRequestWithoutKey == Len(sent') > Len(sent) => apiKey # ""

\* submitting without a key opens the dialog and sends nothing
SubmitOpensDialog ==
    (HandleSubmit /\ apiKey = "") => (showApiKeyModal' /\ sent' = sent)

\* Save of the dialog with a blank field leaves the stored key alone
BlankSaveKeepsKey ==
    (ModalHandleSave /\ IsBlank(modalApiKey))
        => (apiKey' = apiKey /\ localStorage' = localStorage)

\* a mount that finds no stored key opens the dialog
MountOpensDialog == (MountCredential /\ apiKey' = "") => showApiKeyModal'

\* C28 as stated: no request is sent while the stored key is empty,
\* submitting without a key opens the dialog instead, the dialog is open
\* whenever the stored key is empty, and saving a blank key in the dialog
\* leaves the stored key unchanged.
C28_DialogOpenWhileKeyEmpty ==
    /\ [](apiKey = "" => showApiKeyModal)
    /\ [][NoRequestWithoutKey /\ SubmitOpensDialog /\ BlankSaveKeepsKey]_vars

\* C28, amended: no request is sent while the stored key is empty,
\* submitting without a key opens the dialog instead, the dialog is opened
\* by every mount that finds the stored key empty (the user may dismiss it
\* with the key still empty), and saving a blank key in the dialog leaves
\* the stored key unchanged.
C28_NoRequestWithoutKey ==
    /\ apiKey = "" => showApiKeyModal
    /\ [][/\ NoRequestWithoutKey
          /\ SubmitOpensDialog
          /\ BlankSaveKeepsKey
          /\ MountOpensDialog]_vars

\* the dialog was dismissed with no key stored, and the CONTINUE button is
\* enabled
C28_Witness ==
    /\ apiKey = ""
    /\ ~showApiKeyModal
    /\ ~IsBlank(prompt)
    /\ ~IsPending

----------------------------------------------------------------------------
(* The hook useLocalStorage (hooks.ts, lines 4-52) on its own: the page     *)
(* sets values, the storage of the browser is also written by others, and  *)
(* the hook reads it again at each mount.                                  *)

\* the initialValue of the hook of Home
InitialValue == ""

\* values the page may set
StoredValues == {"", " ", "sk-a", "sk-b", "null"}

\* the keys of the origin's storage
StorageKeys == {ApiKeyKey, AuthKey}

\* items others may write: the empty string, texts JSON.parse rejects, and
\* the JSON texts of strings
RawItems == {"", "{", "sk-a"} \cup {JsonStringify(v) : v \in StoredValues}

InitStorage ==
    /\ EndpointIdle
    /\ ConcurrentIdle
    /\ LoginIdle
    /\ PanelIdle
    /\ localStorage = EmptyObject
    /\ apiKey = ReadValue(EmptyObject, ApiKeyKey, InitialValue)
    /\ showApiKeyModal = FALSE
    /\ modalApiKey = ""
    /\ prompt = ""
    /\ sent = <<>>
    /\ homeResponse = <<>>
    /\ cleared = FALSE
    /\ tokenCount = 0

\* a hook that saves the state before it writes to the storage
SetValueEarly(value, throws) ==
    /\ apiKey' = value
    /\ localStorage' = IF throws THEN localStorage
                       ELSE SetItem(localStorage, ApiKeyKey, JsonStringify(value))
    /\ UNCHANGED <<showApiKeyModal, modalApiKey, prompt, sent>>
    /\ UNCHANGED <<homeResponse, cleared, tokenCount>>
    /\ UNCHANGED <<endpointVars, concurrentVars, loginVars, panelVars>>

\* setValue(value), lines 28-44; throws tells whether localStorage.setItem
\* throws, as it does when the quota is used up
SetValue(value, throws) ==
    /\ IF throws
       THEN UNCHANGED <<apiKey, localStorage>>
       ELSE /\ localStorage' = SetItem(localStorage, ApiKeyKey, JsonStringify(value))
            /\ apiKey' = value
    /\ UNCHANGED <<showApiKeyModal, modalApiKey, prompt, sent>>
    /\ UNCHANGED <<homeResponse, cleared, tokenCount>>
    /\ UNCHANGED <<endpointVars, concurrentVars, loginVars, panelVars>>

\* the page sets a value
SetValueCalled == \E value \in StoredValues, throws \in BOOLEAN : SetValue(value, throws)

\* something else writes an item of the storage
StorageWritten ==
    /\ \E key \in StorageKeys, raw \in RawItems :
          /\ localStorage' = SetItem(localStorage, key, raw)
          /\ localStorage' # localStorage
    /\ UNCHANGED <<apiKey, showApiKeyModal, modalApiKey, prompt, sent>>
    /\ UNCHANGED <<homeResponse, cleared, tokenCount>>
    /\ UNCHANGED <<endpointVars, concurrentVars, loginVars, panelVars>>

\* something else removes an item of the storage
StorageRemoved ==
    /\ \E key \in StorageKeys :
          /\ Has(localStorage, key)
          /\ localStorage' = RemoveItem(localStorage, key)
    /\ UNCHANGED <<apiKey, showApiKeyModal, modalApiKey, prompt, sent>>
    /\ UNCHANGED <<homeResponse, cleared, tokenCount>>
    /\ UNCHANGED <<endpointVars, concurrentVars, loginVars, panelVars>>

\* the hook is mounted: useState(readValue) and the effect of lines 46-49
HookMounted ==
    /\ apiKey' = ReadValue(localStorage, ApiKeyKey, InitialValue)
    /\ UNCHANGED localStorage
    /\ UNCHANGED <<showApiKeyModal, modalApiKey, prompt, sent>>
    /\ UNCHANGED <<homeResponse, cleared, tokenCount>>
    /\ UNCHANGED <<endpointVars, concurrentVars, loginVars, panelVars>>

NextStorage == SetValueCalled \/ StorageWritten \/ StorageRemoved \/ HookMounted

SpecStorage == InitStorage /\ [][NextStorage]_vars

\* after setValue(value) succeeds the value in memory and a fresh read of
\* the key are value
RoundTrip ==
    \A value \in StoredValues :
        SetValue(value, FALSE)
            => /\ apiKey' = value
               /\ ReadValue(localStorage', ApiKeyKey, InitialValue) = value

\* when the write throws the value in memory stays
ThrowKeepsValue ==
    \A value \in StoredValues : SetValue(value, TRUE) => apiKey' = apiKey

\* a read of a missing, empty or unparsable item gives the initial value
ReadFallsBack ==
    (/\ HookMounted
     /\ \/ ~Has(localStorage, ApiKeyKey)
        \/ ~IsJsonString(localStorage[ApiKeyKey]))
        => apiKey' = InitialValue

\* C29: useLocalStorage round-trips: after setValue(v) succeeds the value in
\* memory and a fresh read of the key are v, for the empty string too; a
\* read of a missing or unparsable item gives the initial value; and when
\* the write to the storage throws, the value in memory is left unchanged.
C29_RoundTrip == [][RoundTrip /\ ThrowKeepsValue /\ ReadFallsBack]_vars

\* the empty string was set over another value: it is the value in memory
\* and the item of the key is its JSON text
C29_Witness ==
    /\ apiKey = ""
    /\ Has(localStorage, ApiKeyKey)
    /\ localStorage[ApiKeyKey] = JsonStringify("")
    /\ Has(localStorage, AuthKey)

----------------------------------------------------------------------------
(* The page without credential handling (part_001, lines 22-144) with the  *)
(* input panel of InputPanel.tsx: the panel keeps its own token estimate,  *)
(* and all its controls but the sliders' labels are disabled while a       *)
(* request is in flight.                                                   *)

\* useState<string>("Enter a query here")
InputDefaultPrompt == "Enter a query here"

\* texts of the prompt field
InputPrompts == {InputDefaultPrompt, "", " ", "Hi", "Hello"}

\* updateTokenCount, lines 41-45: Math.ceil(text.length / 4)
UpdateTokenCount(text) == (Len(text) + 3) \div 4

InitInput ==
    /\ EndpointIdle
    /\ ConcurrentIdle
    /\ LoginIdle
    /\ PanelIdle
    /\ localStorage = EmptyObject
    /\ apiKey = ""
    /\ showApiKeyModal = FALSE
    /\ modalApiKey = ""
    /\ prompt = InputDefaultPrompt
    /\ sent = <<>>
    /\ homeResponse = <<>>
    /\ cleared = FALSE
    /\ tokenCount = 0

\* handlePromptChange(value), lines 48-51, of the prompt field, which is
\* disabled while a request is in flight
HandlePromptChange ==
    /\ ~IsPending
    /\ \E value \in InputPrompts \ {prompt} :
          /\ prompt' = value
          /\ tokenCount' = UpdateTokenCount(value)
    /\ UNCHANGED <<apiKey, showApiKeyModal, modalApiKey, sent, localStorage>>
    /\ UNCHANGED <<homeResponse, cleared>>
    /\ UNCHANGED <<endpointVars, concurrentVars, loginVars, panelVars>>

\* a page whose Generate button stays enabled while a request is in flight
InputHandleSubmitWhilePending ==
    /\ ~IsBlank(prompt)
    /\ Len(sent) < MaxSent
    /\ sent' = Append(sent,
          [url   |-> "/api/openai",
           data  |-> [prompt      |-> prompt,
                      model       |-> ModelDefault,
                      temperature |-> TemperatureDefault,
                      maxTokens   |-> MaxTokensDefault],
           state |-> "pending"])
    /\ cleared' = FALSE
    /\ UNCHANGED <<apiKey, showApiKeyModal, modalApiKey, prompt, localStorage>>
    /\ UNCHANGED <<homeResponse, tokenCount>>
    /\ UNCHANGED <<endpointVars, concurrentVars, loginVars, panelVars>>

\* the Generate button, enabled unless a request is in flight or the prompt
\* is blank (InputPanel.tsx, lines 151-154), runs handleSubmit (part_001,
\* lines 53-70) with the request of mutation.mutate
InputHandleSubmit ==
    /\ ~IsPending
    /\ ~IsBlank(prompt)
    /\ Len(sent) < MaxSent
    /\ IF IsBlank(prompt)
       THEN UNCHANGED <<sent, cleared>>
       ELSE /\ sent' = Append(sent,
                  [url   |-> "/api/openai",
                   data  |-> [prompt      |-> prompt,
                              model       |-> ModelDefault,
                              temperature |-> TemperatureDefault,
                              maxTokens   |-> MaxTokensDefault],
                   state |-> "pending"])
            /\ cleared' = FALSE
    /\ UNCHANGED <<apiKey, showApiKeyModal, modalApiKey, prompt, localStorage>>
    /\ UNCHANGED <<homeResponse, tokenCount>>
    /\ UNCHANGED <<endpointVars, concurrentVars, loginVars, panelVars>>

\* the clear button, disabled while a request is in flight (InputPanel.tsx,
\* lines 142-150), runs handleClearResponse (part_001, lines 73-75)
InputHandleClearResponse ==
    /\ ~IsPending
    /\ homeResponse' = <<>>
    /\ cleared' = TRUE
    /\ UNCHANGED <<apiKey, showApiKeyModal, modalApiKey, prompt, sent, localStorage>>
    /\ UNCHANGED tokenCount
    /\ UNCHANGED <<endpointVars, concurrentVars, loginVars, panelVars>>

\* the page is loaded again: Home and the panel start afresh and no
\* continuation of the old page runs
MountInput ==
    /\ prompt' = InputDefaultPrompt
    /\ tokenCount' = 0
    /\ homeResponse' = <<>>
    /\ sent' = [i \in 1..Len(sent) |-> AbandonedRequest(sent[i])]
    /\ <<prompt, tokenCount, homeResponse, sent>>'
          # <<prompt, tokenCount, homeResponse, sent>>
    /\ UNCHANGED <<apiKey, showApiKeyModal, modalApiKey, localStorage>>
    /\ UNCHANGED cleared
    /\ UNCHANGED <<endpointVars, concurrentVars, loginVars, panelVars>>

NextInput ==
    \/ HandlePromptChange
    \/ InputHandleSubmit
    \/ MutationSucceeded
    \/ MutationFailed
    \/ InputHandleClearResponse
    \/ MountInput

SpecInput == InitInput /\ [][NextInput]_vars

\* the requests of the page that are in flight
InFlight == {i \in 1..Len(sent) : sent[i].state = "pending"}

\* C23: the page never sends a completion request for a prompt that is
\* empty or only whitespace, and never has more than one request in flight.
C23_OneRequestInFlight ==
    /\ \A i \in 1..Len(sent) : ~IsBlank(sent[i].data.prompt)
    /\ Cardinality(InFlight) <= 1

\* a second request is in flight after the first one was answered
C23_Witness ==
    /\ Len(sent) >= 2
    /\ InFlight # {}
    /\ \E i \in 1..Len(sent) : sent[i].state \in {"succeeded", "failed"}

\* the least k with 4 * k >= n
CeilingOfQuarter(n) == CHOOSE k \in 0..n : 4 * k >= n /\ 4 * (k - 1) < n

\* C27: in every state of the input panel the token estimate on display is
\* ceil(length of the prompt / 4), on the first render with the default
\* prompt too, and it is 0 exactly when the prompt is empty.
C27_TokenEstimate ==
    /\ tokenCount = CeilingOfQuarter(Len(prompt))
    /\ tokenCount = 0 <=> prompt = ""

----------------------------------------------------------------------------
(* The click-to-inspect results panel: client/src/components/              *)
(* ResultsPanel.tsx.  The response on display is one the server built, so  *)
(* its token records come from the normalizer.                             *)

\* top_logprobs of the upstream call: the most alternatives of one token
TopLogprobs == 5
\* allTokens.slice(0, 6)
PanelRowLimit == 6

\* getTokenColorClass, lines 33-40; the class is named by its background
GetTokenColorClass(probability) ==
    IF 10 * probability >= 9 * Scale THEN "bg-green-100"
    ELSE IF 10 * probability >= 7 * Scale THEN "bg-teal-100"
    ELSE IF 10 * probability >= 5 * Scale THEN "bg-blue-100"
    ELSE IF 10 * probability >= 3 * Scale THEN "bg-yellow-100"
    ELSE IF 10 * probability >= 1 * Scale THEN "bg-orange-100"
    ELSE "bg-red-100"

\* response.tokenProbabilities[index], for an index that counts from 0
TokenAt(res, index) == res.tokenProbabilities[index + 1]

\* a panel rendered for every selection, without looking the token up
PanelRenderedUnguarded ==
    /\ panelResponse # <<>>
    /\ selectedTokenIndex # Null

\* the condition under which the alternatives panel is rendered (line 191)
PanelRendered ==
    /\ panelResponse # <<>>
    /\ selectedTokenIndex # Null
    /\ selectedTokenIndex < Len(panelResponse[1].tokenProbabilities)

\* [chosen, ...alternatives].sort((a, b) => b.probability - a.probability)
AllTokens(token) ==
    SortAlternatives(<<[token |-> token.token, probability |-> token.probability]>>
                     \o token.alternatives)

\* a panel that cuts the list after five rows
TopTokensFive(token) ==
    SubSeq(AllTokens(token), 1,
           IF Len(AllTokens(token)) < TopLogprobs THEN Len(AllTokens(token))
           ELSE TopLogprobs)

\* allTokens.slice(0, 6)
TopTokens(token) ==
    SubSeq(AllTokens(token), 1,
           IF Len(AllTokens(token)) < PanelRowLimit THEN Len(AllTokens(token))
           ELSE PanelRowLimit)

\* lines 221-246: the rows of the panel for token, each with its highlight
PanelRows(token) ==
    [i \in 1..Len(TopTokens(token)) |->
        [token       |-> TopTokens(token)[i].token,
         probability |-> TopTokens(token)[i].probability,
         isSelected  |-> TopTokens(token)[i].token = token.token]]

\* the second token of a response of two tokens
SecondEntry == [token |-> "tea", logprob |-> -1, top_logprobs |-> <<>>]

\* a response on display: its first token has any top_logprobs list the
\* upstream may send
InitPanel ==
    /\ EndpointIdle
    /\ ConcurrentIdle
    /\ LoginIdle
    /\ CredentialIdle
    /\ localStorage = EmptyObject
    /\ \E n \in 0..TopLogprobs : \E chosen \in Chosen, top \in [1..n -> TopLogprob] :
          \E rest \in {<<>>, <<SecondEntry>>} :
              panelResponse =
                  <<[text |-> "Tea tea",
                     tokenProbabilities |->
                         NormalizeContent(<<[token        |-> chosen.token,
                                             logprob      |-> chosen.logprob,
                                             top_logprobs |-> top]>> \o rest)]>>
    /\ selectedTokenIndex = Null
    /\ currentTokenIndex = 0

\* handleTokenClick(index), for a token on display
HandleTokenClick ==
    /\ panelResponse # <<>>
    /\ \E index \in 0..(Len(panelResponse[1].tokenProbabilities) - 1) :
          selectedTokenIndex' = IF index = selectedTokenIndex THEN Null ELSE index
    /\ UNCHANGED panelResponse
    /\ UNCHANGED currentTokenIndex
    /\ UNCHANGED <<endpointVars, concurrentVars, loginVars, credentialVars, localStorage>>

\* closeProbabilityPanel, the button of the rendered panel
CloseProbabilityPanel ==
    /\ PanelRendered
    /\ selectedTokenIndex' = Null
    /\ UNCHANGED panelResponse
    /\ UNCHANGED currentTokenIndex
    /\ UNCHANGED <<endpointVars, concurrentVars, loginVars, credentialVars, localStorage>>

\* handleClearResponse of the page: the response prop becomes null
HandleClearResponse ==
    /\ panelResponse # <<>>
    /\ panelResponse' = <<>>
    /\ UNCHANGED selectedTokenIndex
    /\ UNCHANGED currentTokenIndex
    /\ UNCHANGED <<endpointVars, concurrentVars, loginVars, credentialVars, localStorage>>

\* responses that take the place of the one on display: of no token, of
\* one token and of two tokens
PanelReplacements ==
    {[text |-> "", tokenProbabilities |-> NormalizeContent(<<>>)],
     [text |-> "tea", tokenProbabilities |-> NormalizeContent(<<SecondEntry>>)],
     [text |-> "teatea",
      tokenProbabilities |-> NormalizeContent(<<SecondEntry, SecondEntry>>)]}

\* onSuccess of the mutation of the page: setResponse(data) gives the panel
\* another response, and the state of the panel stays
SetResponse ==
    /\ \E data \in PanelReplacements :
          /\ panelResponse # <<data>>
          /\ panelResponse' = <<data>>
    /\ UNCHANGED selectedTokenIndex
    /\ UNCHANGED currentTokenIndex
    /\ UNCHANGED <<endpointVars, concurrentVars, loginVars, credentialVars, localStorage>>

NextPanel ==
    \/ HandleTokenClick
    \/ CloseProbabilityPanel
    \/ HandleClearResponse
    \/ SetResponse

SpecPanel == InitPanel /\ [][NextPanel]_vars

\* C17: every token on display has the colour of the documented three bands:
\* green above 70%, yellow from 30% to 70%, red below 30%.
C17_ThreeBands ==
    panelResponse # <<>> =>
        \A i \in 1..Len(panelResponse[1].tokenProbabilities) :
            LET probability == panelResponse[1].tokenProbabilities[i].probability
            IN  GetTokenColorClass(probability) =
                    (IF 10 * probability > 7 * Scale THEN "bg-green-100"
                     ELSE IF 10 * probability >= 3 * Scale THEN "bg-yellow-100"
                     ELSE "bg-red-100")

\* C19: the rows of a rendered alternatives panel are the chosen token and at
\* most five alternatives, in non-increasing order of probability; exactly
\* one row is highlighted, and it shows the chosen token.
C19_PanelRows ==
    PanelRendered =>
        LET token == TokenAt(panelResponse[1], selectedTokenIndex)
            rows  == PanelRows(token)
        IN  /\ Len(rows) <= TopLogprobs + 1
            /\ \A i \in 1..(Len(rows) - 1) : rows[i].probability >= rows[i + 1].probability
            /\ Cardinality({i \in 1..Len(rows) : rows[i].isSelected}) = 1
            /\ \A i \in 1..Len(rows) :
                  rows[i].isSelected =>
                      /\ rows[i].token = token.token
                      /\ rows[i].probability = token.probability
            /\ Cardinality({i \in 1..Len(rows) : ~rows[i].isSelected}) <= TopLogprobs

\* the panel of a token with five alternatives that are all more probable
\* than the chosen token
C19_Witness ==
    /\ PanelRendered
    /\ LET token == TokenAt(panelResponse[1], selectedTokenIndex)
       IN  /\ Len(token.alternatives) = TopLogprobs
           /\ \A i \in 1..Len(token.alternatives) :
                 token.alternatives[i].probability > token.probability

\* a click on a token that is not the selected one selects it; a click on
\* the selected token deselects
ClickSelects ==
    HandleTokenClick =>
        \/ /\ selectedTokenIndex' = Null
           /\ selectedTokenIndex # Null
        \/ /\ selectedTokenIndex' # Null
           /\ selectedTokenIndex' # selectedTokenIndex
           /\ selectedTokenIndex' \in 0..(Len(panelResponse[1].tokenProbabilities) - 1)

\* the close button deselects
CloseDeselects == CloseProbabilityPanel => selectedTokenIndex' = Null

\* C26: in the click-to-inspect panel a click on an unselected token selects
\* it, a click on the selected token or on the close button deselects, and
\* the alternatives panel is rendered only while the selected index is the
\* index of a token of the response on display, also after the response was
\* replaced by a shorter one or cleared while a token was selected.
C26_SelectionRefersToDisplayed ==
    /\ [](PanelRendered =>
            /\ panelResponse # <<>>
            /\ selectedTokenIndex \in 0..(Len(panelResponse[1].tokenProbabilities) - 1))
    /\ [][ClickSelects /\ CloseDeselects]_vars

\* a token is still selected after the response was replaced by one that
\* has no token at its index
C26_Witness ==
    /\ panelResponse # <<>>
    /\ selectedTokenIndex # Null
    /\ selectedTokenIndex >= Len(panelResponse[1].tokenProbabilities)

----------------------------------------------------------------------------
(* The results panel with token navigation (utils.ts, lines 80-321): one    *)
(* token of the response is on display, and two buttons step through the   *)
(* tokens.                                                                 *)

\* most tokens of a response of the panel
MaxTokenCount == 3

\* logprobs.content entries of the responses of the panel
NavigationEntries == {[token |-> t, logprob |-> -1, top_logprobs |-> <<>>] : t \in Tokens}

\* the responses the page may hand to the panel
NavigationResponses ==
    UNION {{[text |-> "Tea tea", tokenProbabilities |-> NormalizeContent(content)] :
                content \in [1..n -> NavigationEntries]} : n \in 0..MaxTokenCount}

\* the card of the current token is rendered (line 219)
NavigationRendered ==
    /\ panelResponse # <<>>
    /\ Len(panelResponse[1].tokenProbabilities) > 0

\* the panel is mounted without a response
InitNavigation ==
    /\ EndpointIdle
    /\ ConcurrentIdle
    /\ LoginIdle
    /\ CredentialIdle
    /\ localStorage = EmptyObject
    /\ panelResponse = <<>>
    /\ selectedTokenIndex = Null
    /\ currentTokenIndex = 0

\* goToPreviousToken, lines 121-125
GoToPreviousToken ==
    /\ NavigationRendered
    /\ currentTokenIndex' = IF currentTokenIndex > 0 THEN currentTokenIndex - 1
                            ELSE currentTokenIndex
    /\ UNCHANGED <<panelResponse, selectedTokenIndex>>
    /\ UNCHANGED <<endpointVars, concurrentVars, loginVars, credentialVars, localStorage>>

\* a handler that steps forward without looking at the length of the list
GoToNextTokenUnbounded ==
    /\ NavigationRendered
    /\ currentTokenIndex' = currentTokenIndex + 1
    /\ UNCHANGED <<panelResponse, selectedTokenIndex>>
    /\ UNCHANGED <<endpointVars, concurrentVars, loginVars, credentialVars, localStorage>>

\* goToNextToken, lines 127-131
GoToNextToken ==
    /\ NavigationRendered
    /\ currentTokenIndex' =
          IF currentTokenIndex < Len(panelResponse[1].tokenProbabilities) - 1
          THEN currentTokenIndex + 1
          ELSE currentTokenIndex
    /\ UNCHANGED <<panelResponse, selectedTokenIndex>>
    /\ UNCHANGED <<endpointVars, concurrentVars, loginVars, credentialVars, localStorage>>

\* the page hands the panel another response, or null: the panel renders
\* again and the effect of lines 134-136 sets the index to 0
ResponseChanged ==
    /\ \E next \in {<<>>} \cup {<<r>> : r \in NavigationResponses} :
          panelResponse' = next
    /\ currentTokenIndex' = 0
    /\ UNCHANGED selectedTokenIndex
    /\ UNCHANGED <<endpointVars, concurrentVars, loginVars, credentialVars, localStorage>>

NextNavigation == GoToPreviousToken \/ GoToNextToken \/ ResponseChanged

SpecNavigation == InitNavigation /\ [][NextNavigation]_vars

\* index of the last token of the response on display
LastTokenIndex == Len(panelResponse[1].tokenProbabilities) - 1

\* previous at index 0 and next at the last index leave the index alone; a
\* change of the response sets it to 0
NavigationSteps ==
    /\ (GoToPreviousToken /\ currentTokenIndex = 0) => currentTokenIndex' = 0
    /\ (GoToNextToken /\ currentTokenIndex = LastTokenIndex)
          => currentTokenIndex' = currentTokenIndex
    /\ ResponseChanged => currentTokenIndex' = 0

----------------------------------------------------------------------------
(* The completion endpoint under concurrent requests: each request runs the *)
(* handler of routes.ts, lines 10-54, and the forwarder of schema.ts; the  *)
(* handlers interleave at the await of the upstream call.  The credential  *)
(* of the environment is the only thing they share.                        *)

\* the requests in flight
NumRequests == 2

ConcurrentBodies ==
    {[prompt |-> "Hi", apiKey |-> "sk-user"],
     [prompt |-> "Hi", model |-> "gpt-4", apiKey |-> "sk-user"],
     [prompt |-> "", apiKey |-> "sk-user"]}

ConcurrentResponses ==
    {NormalizerResponse(<<[token |-> "Tea", logprob |-> -1,
                           top_logprobs |-> <<[token |-> "tea", logprob |-> -6]>>]>>),
     [choices |-> <<[message |-> [role |-> "assistant"]]>>],
     [choices |-> <<>>]}

ConcurrentErrors ==
    {[isError |-> TRUE, message |-> "Upstream failed",
      response |-> [data |-> "details", status |-> 429]],
     [isError |-> TRUE, message |-> "Upstream failed"]}

\* what forwarder and handler make of the settled outcome of the call of a
\* request with body b: the error thrown, if any, and the response sent
Settle(b, outcome) ==
    IF outcome.kind = "rejected"
    THEN [thrown   |-> <<Rethrow(outcome.error)>>,
          response |-> ErrorResponse(Rethrow(outcome.error))]
    ELSE IF outcome.response.choices = <<>>
    THEN [thrown   |-> <<Rethrow(TypeError)>>,
          response |-> ErrorResponse(Rethrow(TypeError))]
    ELSE [thrown   |-> <<>>,
          response |-> [status |-> 200,
                        body   |-> CompletionResult(ValidatedData(b), outcome.response)]]

InitConcurrent ==
    /\ pc = "idle"
    /\ body = EmptyObject
    /\ envKey \in EnvKeys
    /\ upstreamCalls = <<>>
    /\ upstream = [kind |-> "none"]
    /\ thrown = <<>>
    /\ responses = <<>>
    /\ handlers \in [1..NumRequests ->
                        [pc : {"received"}, body : ConcurrentBodies, call : {0},
                         thrown : {<<>>}, responses : {<<>>}]]
    /\ calls = <<>>
    /\ ClientIdle

\* request i is parsed: the catch block answers 400, or the forwarder issues
\* the upstream call and awaits it
HandlerPost(i) ==
    /\ handlers[i].pc = "received"
    /\ IF Issues(handlers[i].body) # {}
       THEN /\ handlers' = [handlers EXCEPT
                   ![i].responses = <<ErrorResponse(ZodError(handlers[i].body))>>,
                   ![i].pc = "done"]
            /\ calls' = calls
       ELSE /\ calls' = Append(calls,
                   [args    |-> CreateCall(ValidatedData(handlers[i].body)),
                    outcome |-> [kind |-> "pending"]])
            /\ handlers' = [handlers EXCEPT ![i].call = Len(calls) + 1,
                                            ![i].pc = "awaiting"]
    /\ UNCHANGED <<endpointVars, clientVars>>

\* the upstream settles call k
UpstreamSettles(k) ==
    /\ calls[k].outcome.kind = "pending"
    /\ \/ \E res \in ConcurrentResponses :
             calls' = [calls EXCEPT ![k].outcome = [kind |-> "resolved", response |-> res]]
       \/ \E error \in ConcurrentErrors :
             calls' = [calls EXCEPT ![k].outcome = [kind |-> "rejected", error |-> error]]
    /\ UNCHANGED <<handlers, endpointVars, clientVars>>

\* a server that keeps the latest call in one place for all requests: the
\* handler resumes with the outcome of the call issued last
HandlerResumedLatest(i) ==
    /\ handlers[i].pc = "awaiting"
    /\ calls[handlers[i].call].outcome.kind # "pending"
    /\ calls[Len(calls)].outcome.kind # "pending"
    /\ handlers' = [handlers EXCEPT
          ![i].thrown = Settle(handlers[i].body, calls[Len(calls)].outcome).thrown,
          ![i].responses =
              <<Settle(handlers[i].body, calls[Len(calls)].outcome).response>>,
          ![i].pc = "done"]
    /\ UNCHANGED <<calls, endpointVars, clientVars>>

\* the await of request i returns or throws: the handler answers
HandlerResumed(i) ==
    /\ handlers[i].pc = "awaiting"
    /\ calls[handlers[i].call].outcome.kind # "pending"
    /\ handlers' = [handlers EXCEPT
          ![i].thrown = Settle(handlers[i].body, calls[handlers[i].call].outcome).thrown,
          ![i].responses =
              <<Settle(handlers[i].body, calls[handlers[i].call].outcome).response>>,
          ![i].pc = "done"]
    /\ UNCHANGED <<calls, endpointVars, clientVars>>

Post == \E i \in 1..NumRequests : HandlerPost(i)

Settled == \E k \in 1..Len(calls) : UpstreamSettles(k)

Resumed == \E i \in 1..NumRequests : HandlerResumed(i)

NextConcurrent == Post \/ Settled \/ Resumed

SpecConcurrent == InitConcurrent /\ [][NextConcurrent]_vars

\* the response the endpoint owes request i, from the body of the request
\* and the outcome of the request's own call alone
OwnResponse(i) ==
    IF Issues(handlers[i].body) # {}
    THEN ErrorResponse(ZodError(handlers[i].body))
    ELSE Settle(handlers[i].body, calls[handlers[i].call].outcome).response

\* C16: in every interleaving each request has a call of its own, and the one
\* response a finished request got is a function of its own body and of the
\* outcome of its own call, whatever the other requests carry and however
\* their calls end.
C16_RequestsIndependent ==
    /\ \A i, j \in 1..NumRequests :
          (i # j /\ handlers[i].call # 0) => handlers[i].call # handlers[j].call
    /\ \A i \in 1..NumRequests :
          /\ handlers[i].call # 0 =>
                calls[handlers[i].call].args = CreateCall(ValidatedData(handlers[i].body))
          /\ handlers[i].pc = "done" => handlers[i].responses = <<OwnResponse(i)>>
          /\ handlers[i].pc # "done" => handlers[i].responses = <<>>

\* two requests have finished whose calls ended differently: the first call
\* was rejected, the second resolved
C16_Witness ==
    /\ \A i \in 1..NumRequests : handlers[i].pc = "done"
    /\ \E i, j \in 1..NumRequests :
          /\ handlers[i].call = 1
          /\ handlers[j].call = 2
          /\ calls[1].outcome.kind = "rejected"
          /\ calls[2].outcome.kind = "resolved"
          /\ handlers[i].responses # handlers[j].responses

----------------------------------------------------------------------------
(* The two endpoints of the server side by side *)

\* a server that has received one request of the completion endpoint and no
\* request of the passkey endpoint yet
InitServer ==
    /\ pc = "received"
    /\ body \in ConcurrentBodies
    /\ envKey \in EnvKeys
    /\ upstreamCalls = <<>>
    /\ upstream = [kind |-> "none"]
    /\ thrown = <<>>
    /\ responses = <<>>
    /\ ConcurrentIdle
    /\ envPasskey \in EnvPasskeys
    /\ verifications = <<>>
    /\ isAuthenticated = FALSE
    /\ passkey = ""
    /\ loggedOut = FALSE
    /\ localStorage = EmptyObject
    /\ CredentialIdle
    /\ PanelIdle

\* the upstream call of the request resolves
ServerResolved ==
    /\ pc = "awaiting"
    /\ \E response \in ConcurrentResponses : CompletionResolved(response)

NextServer ==
    \/ PostInvalid
    \/ PostValid
    \/ ServerResolved
    \/ CompletionRejected
    \/ PostVerifyPasskey
    \/ VerifyPasskey

SpecServer == InitServer /\ [][NextServer]_vars

\* C22: every request of the completion endpoint and of the passkey endpoint
\* gets exactly one HTTP response: a handler that has finished has sent one
\* response, whether it succeeded, failed validation, or failed upstream with
\* or without a status; a handler that has not finished has sent none.
C22_ExactlyOneResponse ==
    /\ pc = "done" => Len(responses) = 1
    /\ pc # "done" => responses = <<>>
    /\ \A i \in 1..Len(verifications) :
          /\ verifications[i].state = "answered"
                => /\ Has(verifications[i], "response")
                   /\ verifications[i].response.status \in {200, 401, 500}
          /\ verifications[i].state = "sent" => ~Has(verifications[i], "response")

\* the completion endpoint has answered a request whose upstream call failed
\* with a status, and the passkey endpoint has answered a request
C22_Witness ==
    /\ pc = "done"
    /\ thrown # <<>>
    /\ Has(thrown[1], "response")
    /\ Has(thrown[1].response, "status")
    /\ Len(responses) = 1
    /\ responses[1].status = thrown[1].response.status
    /\ \E i \in 1..Len(verifications) : verifications[i].state = "answered"

====
